---------------------------- MODULE Spec2Model ----------------------------
(***************************************************************************)
(* A model of the xmapi client shell: configuration resolution             *)
(* (xmapi/__init__.py, commandline.py, configfile.py), authentication,     *)
(* the HTTP request facade with its error policy (util.py) and the         *)
(* helpers of xmapi/facade.py.                                             *)
(*                                                                         *)
(* Python values are tagged records so that None, an int, a str and a      *)
(* bool stay distinct and Python's truthiness can be computed:             *)
(*   None -> [none |-> TRUE], 7 -> [int |-> 7], "x" -> [str |-> "x"],      *)
(*   True -> [bool |-> TRUE]; an attribute that was never assigned on an   *)
(* object is [absent |-> TRUE].  Text that the code takes apart or builds  *)
(* (paths, URLs) is a sequence of one-character strings; the fixed parts   *)
(* of the base URL are single atoms of such a sequence.                    *)
(***************************************************************************)
EXTENDS Integers, Sequences, FiniteSets, TLC

VARIABLES
    argv,            \* sys.argv[1:], as the options given on the command line
    ini,             \* what configparser read from the xmapi.ini files, or NoFile
    config_holder,   \* xmapi._config_holder[0]
    entityTypes,     \* xmapi.facade._entityTypes
    pc,              \* "ready", "exited" (SystemExit), or "sensors" (inside get_all_sensors)
    call,            \* the most recent call: its name, arguments and outcome
    wire,            \* the HTTP requests sent by the most recent call, in order
    served,          \* the responses get_all_sensors has received in the current/last call
    loop,            \* the locals of get_all_sensors: page, sensors, searchTerm
    initialize_called,   \* history: initialize() has been called in this process
    last_policy_call     \* history: the last of set_fail_on_error / set_log_on_error
                         \* that returned, "none" before any

vars == <<argv, ini, config_holder, entityTypes, pc, call, wire, served, loop,
          initialize_called, last_policy_call>>

-----------------------------------------------------------------------------
(* Python values *)

PyNone == [none |-> TRUE]
PyAbsent == [absent |-> TRUE]
PyInt(n) == [int |-> n]
PyStr(s) == [str |-> s]
PyBool(b) == [bool |-> b]

IsNone(v) == "none" \in DOMAIN v
IsAbsent(v) == "absent" \in DOMAIN v

\* bool(v) for None, int and str, as the tests `if value:` and `if not x:` use it
Truthy(v) ==
    IF "none" \in DOMAIN v THEN FALSE
    ELSE IF "int" \in DOMAIN v THEN v.int # 0
    ELSE IF "str" \in DOMAIN v THEN v.str # ""
    ELSE IF "bool" \in DOMAIN v THEN v.bool
    ELSE TRUE

\* outcomes of a call
Return(v) == [ret |-> v]
Raise(e) == [exc |-> e]
SysExit(code) == [exit |-> code]
Returned(o) == "ret" \in DOMAIN o
Raised(o) == "exc" \in DOMAIN o

-----------------------------------------------------------------------------
(* commandline.py: the options and parse_args *)

Fields == {"subdomain", "key", "proxy_url", "proxy_port"}

DEFAULT == "DEFAULT"

\* int(text) for --proxy_port (type=int), on the texts the model supplies
int(text) ==
    CASE text = "0" -> PyInt(0)
      [] text = "8080" -> PyInt(8080)
      [] OTHER -> [valueerror |-> TRUE]

IsIntText(text) == text \in {"0", "8080"}

\* len(sys.argv) > 1
HasArguments(av) ==
    \/ \E f \in Fields \cup {"chunk"} : ~IsNone(av[f])
    \/ av.quiet
    \/ av.verbose

\* argparse's parser.error(): usage is printed and the process exits with status 2
Usage == [usage |-> TRUE]

\* parser.parse_args(): the Namespace, or Usage
parse_args(av) ==
    IF ~IsNone(av.proxy_port) /\ ~IsIntText(av.proxy_port.str) THEN Usage
    ELSE [subdomain     |-> av.subdomain,
          key           |-> av.key,
          chunk         |-> IF IsNone(av.chunk) THEN PyStr(DEFAULT) ELSE av.chunk,
          quiet         |-> av.quiet,
          verbose       |-> av.verbose,
          proxy_port    |-> IF IsNone(av.proxy_port) THEN PyNone
                            ELSE int(av.proxy_port.str),
          proxy_url     |-> av.proxy_url,
          url           |-> PyAbsent,
          access_token  |-> PyAbsent,
          refresh_token |-> PyAbsent,
          fail_on_error |-> PyAbsent]

-----------------------------------------------------------------------------
(* configfile.py and configparser: the merged configuration *)

NoFile == [nofile |-> TRUE]

\* { "DEFAULT":{} }, the plain dict initialize() substitutes when no file was read
EmptyConfig == [dict |-> TRUE]

IsParser(cf) == "defaults" \in DOMAIN cf

\* parse_config(): None when no file was found, else the ConfigParser
parse_config(files) == files

\* bool(_raw_config): None is falsy; a ConfigParser has len >= 1 (the
\* default section counts) and is truthy
RawConfigTruthy(raw) == raw # NoFile

\* `chunk in config_file`
HasSection(cf, chunk) ==
    IF IsParser(cf) THEN chunk = DEFAULT \/ chunk \in DOMAIN cf.sections
    ELSE chunk = DEFAULT

\* `key in config_file[chunk]`, for a chunk that is in config_file: a
\* SectionProxy also answers for the keys of the default section
HasOption(cf, chunk, key) ==
    IF IsParser(cf)
    THEN IF chunk = DEFAULT THEN key \in DOMAIN cf.defaults
         ELSE key \in DOMAIN cf.sections[chunk] \/ key \in DOMAIN cf.defaults
    ELSE FALSE

\* config_file[chunk][key]: the section's own value first, then the default's
GetOption(cf, chunk, key) ==
    IF chunk # DEFAULT /\ key \in DOMAIN cf.sections[chunk]
    THEN PyStr(cf.sections[chunk][key])
    ELSE PyStr(cf.defaults[key])

-----------------------------------------------------------------------------
(* xmapi/__init__.py: configuration resolution *)

\* _get_item with a fault: the default section is consulted before the chunk
_get_item_default_first(config_file, value, key, default_value, chunk) ==
    IF Truthy(value) THEN value
    ELSE IF HasOption(config_file, DEFAULT, key)
    THEN GetOption(config_file, DEFAULT, key)
    ELSE IF Truthy(chunk) /\ HasSection(config_file, chunk.str)
            /\ HasOption(config_file, chunk.str, key)
    THEN GetOption(config_file, chunk.str, key)
    ELSE default_value

_get_item(config_file, value, key, default_value, chunk) ==
    IF Truthy(value) THEN value
    ELSE IF Truthy(chunk) /\ HasSection(config_file, chunk.str)
            /\ HasOption(config_file, chunk.str, key)
    THEN GetOption(config_file, chunk.str, key)
    ELSE IF HasOption(config_file, DEFAULT, key)
    THEN GetOption(config_file, DEFAULT, key)
    ELSE default_value

\* f"https://{subdomain}.clients.xmcyber.com"
BaseUrl(subdomain) == <<"https://", subdomain.str, ".clients.xmcyber.com">>

\* `if _config_holder[0]:` None is falsy, an argparse.Namespace is truthy
HolderTruthy(holder) == ~IsNone(holder)

\* get_config()
get_config(holder) ==
    IF ~HolderTruthy(holder)
    THEN Raise([error |-> "Configuration file not initialized"])
    ELSE Return(holder)

-----------------------------------------------------------------------------
(* xmapi/__init__.py: authentication *)

HTTP_OK == 200

AuthPath == <<"/", "a", "p", "i", "/", "a", "u", "t", "h", "/">>

AuthRequest(config) ==
    [verb |-> "post", url |-> config.url.url \o AuthPath,
     headers |-> [X_Api_Key |-> config.key]]

\* _authenticate with a fault: every 2xx status is taken for success
_authenticate_any_2xx(config, resp) ==
    IF resp.status_code < 200 \/ resp.status_code > 299
    THEN [config |-> config,
          out |-> Raise([error |-> "Failed to authenticate",
                         status_code |-> resp.status_code])]
    ELSE IF "accessToken" \notin DOMAIN resp.json
    THEN [config |-> config, out |-> Raise([error |-> "KeyError"])]
    ELSE IF "refreshToken" \notin DOMAIN resp.json
    THEN [config |-> [config EXCEPT !.access_token = PyStr(resp.json.accessToken)],
          out |-> Raise([error |-> "KeyError"])]
    ELSE [config |-> [config EXCEPT !.access_token = PyStr(resp.json.accessToken),
                                    !.refresh_token = PyStr(resp.json.refreshToken)],
          out |-> Return(PyNone)]

\* _authenticate(), given the response of the POST: the configuration it
\* leaves and its outcome
_authenticate(config, resp) ==
    IF resp.status_code # HTTP_OK
    THEN [config |-> config,
          out |-> Raise([error |-> "Failed to authenticate",
                         status_code |-> resp.status_code])]
    ELSE IF "accessToken" \notin DOMAIN resp.json
    THEN [config |-> config, out |-> Raise([error |-> "KeyError"])]
    ELSE IF "refreshToken" \notin DOMAIN resp.json
    THEN [config |-> [config EXCEPT !.access_token = PyStr(resp.json.accessToken)],
          out |-> Raise([error |-> "KeyError"])]
    ELSE [config |-> [config EXCEPT !.access_token = PyStr(resp.json.accessToken),
                                    !.refresh_token = PyStr(resp.json.refreshToken)],
          out |-> Return(PyNone)]

-----------------------------------------------------------------------------
(* xmapi/__init__.py: initialize() *)

\* what a call leaves behind: the holder, the outcome, the requests it sent
Done(holder, out, sent) == [holder |-> holder, out |-> out, wire |-> sent]

\* lines 119-129 of initialize(): the proxy pair, the error policy, then
\* authentication; cfg has subdomain, key and url resolved
initialize_proxy(cfg, config_file, chunk, resp) ==
    LET c4 == [cfg EXCEPT !.proxy_port =
                   _get_item(config_file, cfg.proxy_port, "proxy_port", PyNone, chunk)]
        c5 == [c4 EXCEPT !.proxy_url =
                   _get_item(config_file, c4.proxy_url, "proxy_url", PyNone, chunk)]
    IN  IF Truthy(c5.proxy_url) /\ ~Truthy(c5.proxy_port)
        THEN Done(c5, Raise([error |-> "Proxy URL was provided without a proxy port number"]), <<>>)
        ELSE IF ~Truthy(c5.proxy_url) /\ Truthy(c5.proxy_port)
        THEN Done(c5, Raise([error |-> "Proxy port number was provided without a proxy URL"]), <<>>)
        ELSE LET c6 == [c5 EXCEPT !.fail_on_error = PyBool(TRUE)]
                 auth == _authenticate(c6, resp)
             IN  Done(auth.config, auth.out, <<AuthRequest(c6)>>)

\* lines 76-117 of initialize(), for a holder that is still empty; the
\* Namespace is stored in the holder before anything is validated (line 77),
\* and each field is written to it as soon as it is resolved.  --verbose and
\* --quiet only set the logging level
initialize_fresh(holder, av, files, resp) ==
    LET cli == parse_args(av)
        raw == parse_config(files)
    IN  IF cli = Usage THEN Done(holder, SysExit(2), <<>>)
        ELSE IF ~HasArguments(av) /\ ~RawConfigTruthy(raw)
        THEN Done(cli, SysExit(-1), <<>>)
        ELSE
        LET config_file == IF ~RawConfigTruthy(raw) THEN EmptyConfig ELSE raw
            chunk == cli.chunk
            c1 == [cli EXCEPT !.subdomain =
                       _get_item(config_file, cli.subdomain, "subdomain", PyNone, chunk)]
            c2 == [c1 EXCEPT !.key =
                       _get_item(config_file, c1.key, "key", PyNone, chunk)]
            c3 == [c2 EXCEPT !.url = [url |-> BaseUrl(c2.subdomain)]]
        IN  IF ~Truthy(c1.subdomain)
            THEN Done(c1, Raise([error |-> "No client subdomain specified"]), <<>>)
            ELSE IF ~Truthy(c2.key)
            THEN Done(c2, Raise([error |-> "No --key has specified"]), <<>>)
            ELSE initialize_proxy(c3, config_file, chunk, resp)

\* initialize with a fault: the guard on the holder is missing
initialize_unguarded(holder, av, files, resp) ==
    initialize_fresh(holder, av, files, resp)

\* initialize(): a no-op once the holder is set
initialize(holder, av, files, resp) ==
    IF HolderTruthy(holder) THEN Done(holder, Return(PyNone), <<>>)
    ELSE initialize_fresh(holder, av, files, resp)

-----------------------------------------------------------------------------
(* xmapi/__init__.py: the error-policy toggles *)

\* set_log_on_error() / set_fail_on_error(): get_config().fail_on_error = value
set_policy(holder, value) ==
    LET config == get_config(holder)
    IN  IF Raised(config) THEN Done(holder, config, <<>>)
        ELSE Done([holder EXCEPT !.fail_on_error = PyBool(value)], Return(PyNone), <<>>)

-----------------------------------------------------------------------------
(* xmapi/__init__.py: _build_path *)

RECURSIVE Flatten(_)
\* "".join(parts)
Flatten(parts) ==
    IF parts = <<>> THEN <<>> ELSE Head(parts) \o Flatten(Tail(parts))

\* urllib.parse.quote of one character with the default safe="/": letters and
\* "/" stay, a space becomes %20 and a percent sign %25
QuoteChar(c) ==
    CASE c = " " -> <<"%", "2", "0">>
      [] c = "%" -> <<"%", "2", "5">>
      [] OTHER -> <<c>>

\* urllib.parse.quote(element)
quote(element) == Flatten([i \in 1..Len(element) |-> QuoteChar(element[i])])

RECURSIVE split(_)
\* text.split("/"): always at least one segment, empty segments kept
split(text) ==
    IF \A i \in 1..Len(text) : text[i] # "/" THEN <<text>>
    ELSE LET i == CHOOSE j \in 1..Len(text) :
                      text[j] = "/" /\ \A k \in 1..(j - 1) : text[k] # "/"
         IN  <<SubSeq(text, 1, i - 1)>> \o split(SubSeq(text, i + 1, Len(text)))

RECURSIVE join(_)
\* "/".join(elements)
join(elements) ==
    IF elements = <<>> THEN <<>>
    ELSE IF Len(elements) = 1 THEN elements[1]
    ELSE elements[1] \o <<"/">> \o join(Tail(elements))

ApiPrefix == <<"/", "a", "p", "i", "/">>

\* _build_path(path, encode_path); path is [str |-> text] or [list |-> segments]
_build_path(path, encode_path) ==
    LET p1 == IF "str" \in DOMAIN path /\ encode_path
              THEN [list |-> split(path.str)] ELSE path
        p2 == IF encode_path
              THEN [list |-> [i \in 1..Len(p1.list) |-> quote(p1.list[i])]] ELSE p1
        p3 == IF "str" \notin DOMAIN p2 THEN [str |-> join(p2.list)] ELSE p2
    IN  ApiPrefix \o p3.str

-----------------------------------------------------------------------------
(* util.py: the error handlers;  xmapi/__init__.py: api_request *)

ApiError(resp) ==
    Raise([error |-> "API returned error status code", status_code |-> resp.status_code])

\* log_on_error(error_response): logs and returns
log_on_error(resp) == Return(PyNone)

\* fail_on_error(error_response)
fail_on_error(resp) == ApiError(resp)

\* default_on_error with a fault: the policy is not consulted
default_on_error_always_fails(holder, resp) ==
    LET config == get_config(holder)
    IN  IF Raised(config) THEN config
        ELSE IF IsAbsent(config.ret.fail_on_error) THEN Raise([error |-> "AttributeError"])
        ELSE fail_on_error(resp)

\* default_on_error(error_response): reads the policy at call time
default_on_error(holder, resp) ==
    LET config == get_config(holder)
    IN  IF Raised(config) THEN config
        ELSE IF IsAbsent(config.ret.fail_on_error) THEN Raise([error |-> "AttributeError"])
        ELSE IF Truthy(config.ret.fail_on_error) THEN fail_on_error(resp)
        ELSE log_on_error(resp)

\* on_error(resp), for the handlers a caller may pass
on_error_call(on_error, holder, resp) ==
    CASE on_error = "default_on_error" -> default_on_error(holder, resp)
      [] on_error = "fail_on_error" -> fail_on_error(resp)
      [] on_error = "log_on_error" -> log_on_error(resp)

\* the test of api_request on the status of the response
IsErrorStatus(status_code) == status_code < 200 \/ status_code > 299

\* the request api_request sends
ApiRequestOf(config, verb, path, encode_path, params) ==
    [verb |-> verb,
     url |-> config.url.url \o <<"/">> \o _build_path(path, encode_path),
     params |-> params,
     auth |-> [Bearer |-> config.access_token]]

\* api_request(verb, path, encode_path, params=params, on_error=on_error), the
\* server answering resp: the outcome and the requests sent
api_request(holder, verb, path, encode_path, params, on_error, resp) ==
    LET config == get_config(holder)
    IN  IF Raised(config) THEN [out |-> config, wire |-> <<>>]
        ELSE IF IsAbsent(config.ret.access_token)
        THEN [out |-> Raise([error |-> "AttributeError"]), wire |-> <<>>]
        ELSE LET sent == <<ApiRequestOf(config.ret, verb, path, encode_path, params)>>
                 handled == IF IsErrorStatus(resp.status_code)
                            THEN on_error_call(on_error, holder, resp)
                            ELSE Return(PyNone)
             IN  IF Raised(handled) THEN [out |-> handled, wire |-> sent]
                 ELSE [out |-> Return(resp), wire |-> sent]

\* api_get / api_put / api_post / api_delete
api_get(holder, path, encode_path, params, on_error, resp) ==
    api_request(holder, "get", path, encode_path, params, on_error, resp)
api_put(holder, path, encode_path, params, on_error, resp) ==
    api_request(holder, "put", path, encode_path, params, on_error, resp)
api_post(holder, path, encode_path, params, on_error, resp) ==
    api_request(holder, "post", path, encode_path, params, on_error, resp)
api_delete(holder, path, encode_path, params, on_error, resp) ==
    api_request(holder, "delete", path, encode_path, params, on_error, resp)

-----------------------------------------------------------------------------
(* xmapi/facade.py *)

SensorsPath == [str |-> <<"s", "e", "n", "s", "o", "r", "s">>]

PageSize == 100

\* get_sensors(do_post, page, pageSize, search), the server answering resp
get_sensors(holder, do_post, page, pageSize, search, resp) ==
    LET params == IF Truthy(search)
                  THEN [page |-> page, pageSize |-> pageSize, search |-> [regex |-> search.str]]
                  ELSE [page |-> page, pageSize |-> pageSize]
    IN  IF do_post
        THEN api_post(holder, SensorsPath, FALSE, params, "default_on_error", resp)
        ELSE api_get(holder, SensorsPath, FALSE, params, "default_on_error", resp)

Running == [running |-> TRUE]

\* get_all_sensors_iteration with a fault: the page number is not advanced
get_all_sensors_iteration_same_page(holder, lp, resp) ==
    LET result == get_sensors(holder, FALSE, lp.page, PageSize, lp.searchTerm, resp)
        sensors == lp.sensors \o resp.json.data
    IN  IF Raised(result.out)
        THEN [out |-> result.out, loop |-> lp, wire |-> result.wire]
        ELSE IF resp.status_code < 200 \/ resp.status_code > 299
        THEN [out |-> Return(PyNone), loop |-> lp, wire |-> result.wire]
        ELSE IF "nextLink" \in DOMAIN resp.json.paging
        THEN [out |-> Running,
              loop |-> [lp EXCEPT !.sensors = sensors],
              wire |-> result.wire]
        ELSE [out |-> Return([list |-> sensors]),
              loop |-> [lp EXCEPT !.sensors = sensors],
              wire |-> result.wire]

\* one pass of the `while True` of get_all_sensors, from the locals lp: the
\* outcome (Running when the loop goes on), the locals and the request sent
get_all_sensors_iteration(holder, lp, resp) ==
    LET result == get_sensors(holder, FALSE, lp.page, PageSize, lp.searchTerm, resp)
        sensors == lp.sensors \o resp.json.data
    IN  IF Raised(result.out)
        THEN [out |-> result.out, loop |-> lp, wire |-> result.wire]
        ELSE IF resp.status_code < 200 \/ resp.status_code > 299
        THEN [out |-> Return(PyNone), loop |-> lp, wire |-> result.wire]
        ELSE IF "nextLink" \in DOMAIN resp.json.paging
        THEN [out |-> Running,
              loop |-> [lp EXCEPT !.sensors = sensors, !.page = lp.page + 1],
              wire |-> result.wire]
        ELSE [out |-> Return([list |-> sensors]),
              loop |-> [lp EXCEPT !.sensors = sensors],
              wire |-> result.wire]

RECURSIVE BuildTypes(_, _)
\* the loop `for type in json["data"]: types[type["id"]] = type["displayName"]`
BuildTypes(types, data) ==
    IF data = <<>> THEN types
    ELSE LET type == Head(data)
             next == [id \in DOMAIN types \cup {type.id} |->
                         IF id = type.id THEN type.displayName ELSE types[id]]
         IN  BuildTypes(next, Tail(data))

NoTypes == [id \in {} |-> ""]

\* get_entityTypes(refresh), entityInventory.entityTypes() having returned
\* resp: the module-level catalog it leaves and the outcome
get_entityTypes(catalog, refresh, resp) ==
    IF resp.status_code # 200
    THEN [entityTypes |-> catalog, out |-> Return(PyNone)]
    ELSE IF refresh \/ catalog = NoTypes
    THEN LET types == BuildTypes(NoTypes, resp.json.data)
         IN  [entityTypes |-> types, out |-> Return([dict |-> types])]
    ELSE [entityTypes |-> catalog, out |-> Return([dict |-> catalog])]

-----------------------------------------------------------------------------
(* The environment: command lines, configuration files, the auth endpoint *)

Argv(subdomain, key, proxy_url, proxy_port, chunk, quiet, verbose) ==
    [subdomain |-> subdomain, key |-> key, proxy_url |-> proxy_url,
     proxy_port |-> proxy_port, chunk |-> chunk, quiet |-> quiet, verbose |-> verbose]

\* a parsed set of ini files: the default section and the named sections
Parser(defaults, sections) == [defaults |-> defaults, sections |-> sections]

NoSections == [c \in {} |-> <<>>]
NoKeys == [k \in {} |-> ""]

\* the values a key may have in the default section and in section "prod"
DefaultValues ==
    [subdomain |-> {"tenant", ""}, key |-> {"filekey"},
     proxy_url |-> {"http://file-proxy"}, proxy_port |-> {"3128"}]

ProdValues ==
    [subdomain |-> {"prod-tenant", ""}, key |-> {"prodkey"},
     proxy_url |-> {"http://prod-proxy"}, proxy_port |-> {"3129"}]

\* every section body over the four keys: each key absent or with one of its values
Bodies(values) ==
    UNION { { f \in [S -> UNION { values[k] : k \in S }] :
                \A k \in S : f[k] \in values[k] } : S \in SUBSET Fields }

ResolveArgv ==
    { Argv(s, k, u, p, c, FALSE, FALSE) :
        s \in {PyNone, PyStr(""), PyStr("acme")},
        k \in {PyNone, PyStr("abc123")},
        u \in {PyNone, PyStr("http://cli-proxy")},
        p \in {PyNone, PyStr("0"), PyStr("8080")},
        c \in {PyNone, PyStr("prod")} }

ResolveIni ==
    {NoFile}
    \cup { Parser(d, NoSections) : d \in Bodies(DefaultValues) }
    \cup { Parser(d, [prod |-> b]) : d \in Bodies(DefaultValues), b \in Bodies(ProdValues) }

AuthStatuses == {200, 201, 401}

AuthBodies ==
    { [accessToken |-> "access-1", refreshToken |-> "refresh-1"],
      [accessToken |-> "access-1"],
      NoKeys }

AuthResponses == { [status_code |-> s, json |-> j] : s \in AuthStatuses, j \in AuthBodies }

\* the two answers that matter to resolution: accepted and rejected
ResolveAuthResponses ==
    { [status_code |-> 200,
       json |-> [accessToken |-> "access-1", refreshToken |-> "refresh-1"]],
      [status_code |-> 401, json |-> NoKeys] }

-----------------------------------------------------------------------------
(* The environment: the API server *)

Verbs == {"get", "put", "post", "delete"}
Handlers == {"default_on_error", "fail_on_error", "log_on_error"}

ApiStatuses == {199, 200, 299, 300, 500}
ApiResponses == { [status_code |-> c] : c \in ApiStatuses }

MaxPathLen == 2
PathChars == {"a", " ", "/"}

\* every text of at most MaxPathLen characters
Texts == UNION { [1..n -> PathChars] : n \in 0..MaxPathLen }

\* a path as one string, and the same path as the list of its segments
Paths == { [str |-> t] : t \in Texts } \cup { [list |-> split(t)] : t \in Texts }

MaxPages == 3
PageData == {<<>>, <<"s1">>, <<"s2", "s1">>}
SensorStatuses == {200, 201, 500}
Pagings == { [nextLink |-> "next"], NoKeys }

SensorResponses ==
    { [status_code |-> c, json |-> [data |-> d, paging |-> g]] :
        c \in SensorStatuses, d \in PageData, g \in Pagings }

MaxTypes == 2
TypeIds == {"t1", "t2"}
TypeNames == {"Host", "Server"}
TypeEntries == { [id |-> i, displayName |-> n] : i \in TypeIds, n \in TypeNames }
TypeLists == UNION { [1..n -> TypeEntries] : n \in 0..MaxTypes }
EntityTypeStatuses == {200, 201, 500}

EntityTypeResponses ==
    { [status_code |-> c, json |-> [data |-> d]] :
        c \in EntityTypeStatuses, d \in TypeLists }

-----------------------------------------------------------------------------
(* The state machine *)

NoCall == [op |-> "none"]
NoLoop == [page |-> 0, sensors |-> <<>>, searchTerm |-> PyNone]

InitWith(av, files) ==
    /\ argv = av
    /\ ini = files
    /\ config_holder = PyNone
    /\ entityTypes = NoTypes
    /\ pc = "ready"
    /\ call = NoCall
    /\ wire = <<>>
    /\ served = <<>>
    /\ loop = NoLoop
    /\ initialize_called = FALSE
    /\ last_policy_call = "none"

\* a call of xmapi.initialize(); the auth endpoint answers resp if it is asked
Initialize(resp) ==
    /\ pc = "ready"
    /\ LET r == initialize(config_holder, argv, ini, resp)
       IN  /\ config_holder' = r.holder
           /\ call' = [op |-> "initialize", out |-> r.out,
                       resolving |-> ~HolderTruthy(config_holder),
                       resp |-> IF r.wire = <<>> THEN PyNone ELSE resp]
           /\ wire' = r.wire
           /\ pc' = IF "exit" \in DOMAIN r.out THEN "exited" ELSE "ready"
    /\ initialize_called' = TRUE
    /\ UNCHANGED <<argv, ini, entityTypes, served, loop, last_policy_call>>

\* a call of xmapi.set_log_on_error() or xmapi.set_fail_on_error()
SetPolicy(name, value) ==
    /\ pc = "ready"
    /\ LET r == set_policy(config_holder, value)
       IN  /\ config_holder' = r.holder
           /\ call' = [op |-> name, out |-> r.out]
           /\ wire' = r.wire
           /\ last_policy_call' = IF Returned(r.out) THEN name ELSE last_policy_call
    /\ UNCHANGED <<argv, ini, entityTypes, pc, served, loop, initialize_called>>

SetLogOnError == SetPolicy("set_log_on_error", FALSE)

SetFailOnError == SetPolicy("set_fail_on_error", TRUE)

\* a call of api_get / api_put / api_post / api_delete (and so of api_request)
ApiCall(verb, path, encode_path, on_error, resp) ==
    /\ pc = "ready"
    /\ LET r == CASE verb = "get" ->
                       api_get(config_holder, path, encode_path, PyNone, on_error, resp)
                  [] verb = "put" ->
                       api_put(config_holder, path, encode_path, PyNone, on_error, resp)
                  [] verb = "post" ->
                       api_post(config_holder, path, encode_path, PyNone, on_error, resp)
                  [] verb = "delete" ->
                       api_delete(config_holder, path, encode_path, PyNone, on_error, resp)
       IN  /\ call' = [op |-> "api_request", verb |-> verb, path |-> path,
                       encode_path |-> encode_path, on_error |-> on_error,
                       resp |-> resp, out |-> r.out]
           /\ wire' = r.wire
    /\ UNCHANGED <<argv, ini, config_holder, entityTypes, pc, served, loop,
                   initialize_called, last_policy_call>>

\* one pass of the loop of get_all_sensors from the locals lp, the server
\* answering resp; the model stops following nextLink at page MaxPages
SensorsPass(lp, before, sent, resp) ==
    /\ "nextLink" \in DOMAIN resp.json.paging => lp.page < MaxPages
    /\ LET r == get_all_sensors_iteration(config_holder, lp, resp)
       IN  /\ loop' = r.loop
           /\ call' = [op |-> "get_all_sensors", out |-> r.out]
           /\ wire' = sent \o r.wire
           /\ served' = IF r.wire = <<>> THEN before ELSE Append(before, resp)
           /\ pc' = IF r.out = Running THEN "sensors" ELSE "ready"
    /\ UNCHANGED <<argv, ini, config_holder, entityTypes, initialize_called,
                   last_policy_call>>

\* a call of facade.get_all_sensors(searchTerm), up to the end of its first pass
GetAllSensors(searchTerm, resp) ==
    /\ pc = "ready"
    /\ SensorsPass([page |-> 1, sensors |-> <<>>, searchTerm |-> searchTerm],
                   <<>>, <<>>, resp)

\* the next pass of a get_all_sensors that follows a nextLink
GetAllSensorsNext(resp) ==
    /\ pc = "sensors"
    /\ SensorsPass(loop, served, wire, resp)

\* a call of facade.get_entityTypes(refresh); resp is what
\* xmapi.entityInventory.entityTypes() returned
GetEntityTypes(refresh, resp) ==
    /\ pc = "ready"
    /\ LET r == get_entityTypes(entityTypes, refresh, resp)
       IN  /\ entityTypes' = r.entityTypes
           /\ call' = [op |-> "get_entityTypes", refresh |-> refresh,
                       resp |-> resp, out |-> r.out]
           /\ wire' = <<>>
    /\ UNCHANGED <<argv, ini, config_holder, pc, served, loop, initialize_called,
                   last_policy_call>>

-----------------------------------------------------------------------------
(* Specifications *)

\* Resolution: every command line and every merged configuration
InitResolve == \E av \in ResolveArgv, files \in ResolveIni : InitWith(av, files)

NextResolve == \E resp \in ResolveAuthResponses : Initialize(resp)

SpecResolve == InitResolve /\ [][NextResolve]_vars

\* The life of a process: a few command lines and files, every answer of the
\* auth endpoint, the policy toggles and API calls to one path
DefaultKeyOnly == Parser([key |-> "filekey"], NoSections)

Scenarios ==
    { <<Argv(PyStr("acme"), PyStr("abc123"), PyNone, PyNone, PyNone, FALSE, FALSE), NoFile>>,
      <<Argv(PyStr("acme"), PyNone, PyNone, PyNone, PyNone, FALSE, FALSE), DefaultKeyOnly>>,
      <<Argv(PyStr("acme"), PyStr("abc123"), PyStr("http://cli-proxy"), PyStr("8080"),
             PyNone, FALSE, TRUE), NoFile>>,
      <<Argv(PyNone, PyStr("abc123"), PyNone, PyNone, PyNone, FALSE, FALSE), NoFile>>,
      <<Argv(PyStr("acme"), PyStr("abc123"), PyNone, PyStr("http"), PyNone, FALSE, FALSE),
        NoFile>>,
      <<Argv(PyNone, PyNone, PyNone, PyNone, PyNone, FALSE, FALSE), NoFile>> }

Init == \E s \in Scenarios : InitWith(s[1], s[2])

Next ==
    \/ \E resp \in AuthResponses : Initialize(resp)
    \/ SetLogOnError
    \/ SetFailOnError
    \/ \E verb \in Verbs, encode_path \in BOOLEAN, on_error \in Handlers,
          resp \in ApiResponses :
            ApiCall(verb, SensorsPath, encode_path, on_error, resp)

Spec == Init /\ [][Next]_vars

\* Paths: one initialized process, every path of the bounded alphabet
ScenarioA ==
    <<Argv(PyStr("acme"), PyStr("abc123"), PyNone, PyNone, PyNone, FALSE, FALSE), NoFile>>

InitA == InitWith(ScenarioA[1], ScenarioA[2])

NextPath ==
    \/ \E resp \in ResolveAuthResponses : Initialize(resp)
    \/ \E path \in Paths, encode_path \in BOOLEAN, resp \in ApiResponses :
            ApiCall("get", path, encode_path, "default_on_error", resp)

SpecPath == InitA /\ [][NextPath]_vars

\* Pagination
NextSensors ==
    \/ \E resp \in ResolveAuthResponses : Initialize(resp)
    \/ SetLogOnError
    \/ SetFailOnError
    \/ \E searchTerm \in {PyNone, PyStr("web")}, resp \in SensorResponses :
            GetAllSensors(searchTerm, resp)
    \/ \E resp \in SensorResponses : GetAllSensorsNext(resp)

SpecSensors == InitA /\ [][NextSensors]_vars

\* The entity-type catalog
NextCatalog ==
    \/ \E resp \in ResolveAuthResponses : Initialize(resp)
    \/ \E refresh \in BOOLEAN, resp \in EntityTypeResponses :
            GetEntityTypes(refresh, resp)

SpecCatalog == InitA /\ [][NextCatalog]_vars

-----------------------------------------------------------------------------
(* Properties *)

\* the last call was an initialize() that found the holder empty, ran the
\* resolution and did not end the process
Resolving ==
    /\ call.op = "initialize"
    /\ call.resolving
    /\ pc = "ready"

\* C1: a field the command line supplies, whatever its value (0 and "" too),
\* resolves to the command-line value and no file value is used
C1_CliPrecedence ==
    Resolving =>
        \A f \in Fields :
            ~IsNone(argv[f]) => config_holder[f] = parse_args(argv)[f]

\* initialize() got as far as resolving field f (it raises at the first
\* required field that is missing)
Reached(f) ==
    CASE f = "subdomain" -> TRUE
      [] f = "key" -> Truthy(config_holder.subdomain)
      [] OTHER -> Truthy(config_holder.subdomain) /\ Truthy(config_holder.key)

\* what the files alone say about key f under chunk c: the section's value,
\* else the default section's, else None
FromFiles(c, f) ==
    IF ini # NoFile /\ c \in DOMAIN ini.sections /\ f \in DOMAIN ini.sections[c]
    THEN PyStr(ini.sections[c][f])
    ELSE IF ini # NoFile /\ f \in DOMAIN ini.defaults
    THEN PyStr(ini.defaults[f])
    ELSE PyNone

\* C2: with --chunk c, c other than DEFAULT, a field not given on the command
\* line resolves to section c's value if c has the key, else to the DEFAULT
\* section's value, else to None
C2_ChunkThenDefault ==
    (Resolving /\ ~IsNone(argv.chunk) /\ argv.chunk.str # DEFAULT) =>
        \A f \in Fields :
            (IsNone(argv[f]) /\ Reached(f)) =>
                config_holder[f] = FromFiles(argv.chunk.str, f)

\* C2's case: the key is in section prod and in DEFAULT, and prod's value won
C2_Witness ==
    /\ Resolving
    /\ argv.chunk = PyStr("prod")
    /\ IsNone(argv.key)
    /\ ini # NoFile
    /\ "key" \in DOMAIN ini.defaults
    /\ config_holder.key = PyStr("prodkey")
    /\ IsNone(argv.proxy_port)
    /\ "prod" \in DOMAIN ini.sections
    /\ "proxy_port" \notin DOMAIN ini.sections.prod
    /\ config_holder.proxy_port = PyStr("3128")

ProxyErrors ==
    { Raise([error |-> "Proxy URL was provided without a proxy port number"]),
      Raise([error |-> "Proxy port number was provided without a proxy URL"]) }

\* the chunk initialize() selects
Chunk == IF IsNone(argv.chunk) THEN DEFAULT ELSE argv.chunk.str

\* field f is set: the command line gives it, or the files do
IsSet(f) == ~IsNone(argv[f]) \/ ~IsNone(FromFiles(Chunk, f))

\* C3: with subdomain and key resolved, exactly one of proxy_url / proxy_port
\* set fails with a configuration error before any request is sent; both set
\* (any port, 0 too) or both unset goes on to authentication
C3_ProxyPair ==
    (Resolving /\ Truthy(config_holder.subdomain) /\ Truthy(config_holder.key)) =>
        IF IsSet("proxy_url") # IsSet("proxy_port")
        THEN call.out \in ProxyErrors /\ wire = <<>>
        ELSE Len(wire) = 1 /\ wire[1] = AuthRequest(config_holder)

\* C10: a Configuration that get_config() returns has a non-empty subdomain
\* and key, and proxy_url / proxy_port both present or both absent
C10_ConfigInvariant ==
    (pc = "ready" /\ Returned(get_config(config_holder))) =>
        LET config == get_config(config_holder).ret
        IN  /\ Truthy(config.subdomain)
            /\ Truthy(config.key)
            /\ IsNone(config.proxy_url) = IsNone(config.proxy_port)

\* C4: a call of initialize() after a first one raises nothing, sends nothing
\* and leaves every field of the Configuration as it was
C4_SecondInitializeNoOp ==
    [][ (initialize_called /\ pc = "ready" /\ call'.op = "initialize") =>
            /\ config_holder' = config_holder
            /\ wire' = <<>>
            /\ call'.out = Return(PyNone) ]_vars

\* C4's case: initialize() succeeded, set_log_on_error() changed the policy,
\* and a second initialize() has returned
C4_Witness ==
    /\ call.op = "initialize"
    /\ ~call.resolving
    /\ last_policy_call = "set_log_on_error"
    /\ config_holder.fail_on_error = PyBool(FALSE)
    /\ ~IsAbsent(config_holder.refresh_token)

\* C5: any status of the auth endpoint but 200 raises an authentication error
\* carrying the status and sets no token; 200 with both tokens in the body
\* stores both and initialize() returns
C5_AuthStatus ==
    (call.op = "initialize" /\ wire # <<>>) =>
        IF call.resp.status_code # 200
        THEN /\ call.out = Raise([error |-> "Failed to authenticate",
                                  status_code |-> call.resp.status_code])
             /\ IsAbsent(config_holder.access_token)
             /\ IsAbsent(config_holder.refresh_token)
        ELSE {"accessToken", "refreshToken"} \subseteq DOMAIN call.resp.json =>
                /\ call.out = Return(PyNone)
                /\ config_holder.access_token = PyStr(call.resp.json.accessToken)
                /\ config_holder.refresh_token = PyStr(call.resp.json.refreshToken)

\* C5's case: the auth endpoint answered 201 with both tokens in the body
C5_Witness ==
    /\ call.op = "initialize"
    /\ wire # <<>>
    /\ call.resp.status_code = 201
    /\ "refreshToken" \in DOMAIN call.resp.json
    /\ Raised(call.out)

\* initialize() returned normally in this process
Initialized ==
    /\ HolderTruthy(config_holder)
    /\ ~IsAbsent(config_holder.refresh_token)

\* C6: after a successful initialize(), a request with the default handler
\* raises an API error carrying the status exactly when the status is outside
\* 200..299 and the last toggle, if any, was set_fail_on_error; otherwise it
\* returns the response
C6_PolicyAtCallTime ==
    (call.op = "api_request" /\ call.on_error = "default_on_error" /\ Initialized) =>
        IF /\ call.resp.status_code \notin 200..299
           /\ last_policy_call \in {"none", "set_fail_on_error"}
        THEN call.out = Raise([error |-> "API returned error status code",
                               status_code |-> call.resp.status_code])
        ELSE call.out = Return(call.resp)

\* C6's case: the policy was switched to log, and a request answered 500 returned
C6_Witness ==
    /\ call.op = "api_request"
    /\ call.on_error = "default_on_error"
    /\ Initialized
    /\ last_policy_call = "set_log_on_error"
    /\ call.resp.status_code = 500
    /\ call.out = Return(call.resp)

\* the segments of a path: of a string, its "/"-separated parts
Segments(path) == IF "str" \in DOMAIN path THEN split(path.str) ELSE path.list

\* C7: the URL requested is the base URL followed by exactly /api/<path>,
\* <path> the segments joined by "/", each percent-encoded under encode_path
C7_UrlIsBaseApiPath ==
    (call.op = "api_request" /\ wire # <<>>) =>
        LET segments == Segments(call.path)
            encoded == [i \in 1..Len(segments) |->
                           IF call.encode_path THEN quote(segments[i]) ELSE segments[i]]
        IN  wire[1].url = BaseUrl(config_holder.subdomain) \o ApiPrefix \o join(encoded)

Is2xx(resp) == resp.status_code \in 200..299
HasNext(resp) == "nextLink" \in DOMAIN resp.json.paging

\* C8: when pages 1..n are answered 2xx, the first n-1 with a nextLink and
\* page n without, get_all_sensors requests pages 1..n in order and returns
\* the items of the n pages concatenated in page order
C8_AllPagesInOrder ==
    (call.op = "get_all_sensors" /\ served # <<>>
        /\ \A i \in 1..Len(served) : Is2xx(served[i])) =>
        LET n == Len(served)
        IN  /\ Len(wire) = n
            /\ \A i \in 1..n : wire[i].verb = "get" /\ wire[i].params.page = i
            /\ \A i \in 1..(n - 1) : HasNext(served[i])
            /\ IF HasNext(served[n])
               THEN pc = "sensors" /\ call.out = Running
               ELSE /\ pc = "ready"
                    /\ call.out =
                         Return([list |-> Flatten([i \in 1..n |-> served[i].json.data])])

\* C8's case: three pages, the first two with a nextLink, the third without
C8_Witness ==
    /\ call.op = "get_all_sensors"
    /\ pc = "ready"
    /\ Len(served) = 3
    /\ served[1].status_code = 201
    /\ served[1].json.data = <<"s2", "s1">>
    /\ served[2].json.data = <<>>
    /\ served[3].json.data = <<"s1">>
    /\ call.out = Return([list |-> <<"s2", "s1", "s1">>])

\* C9: once the catalog is populated, get_entityTypes(refresh=False) returns
\* that catalog whatever the endpoint answers, and leaves it in place
C9_CachedUntilRefresh ==
    [][ (entityTypes # NoTypes /\ call'.op = "get_entityTypes" /\ ~call'.refresh) =>
            /\ call'.out = Return([dict |-> entityTypes])
            /\ entityTypes' = entityTypes ]_vars

=============================================================================
